---------------------------- MODULE Spec2Model ----------------------------
(***************************************************************************)
(* The DTP batch processor (dtp_processing.py, main) as a state machine.   *)
(*                                                                         *)
(* The buffer table lbn.dtp_buffer holds raw records; main() selects the   *)
(* eligible ones in batches, decodes raw_json, inserts one row per item    *)
(* into lbn.dtp_main and updates date_processing / is_error.  Every        *)
(* connection is in autocommit mode, so every statement is its own         *)
(* transaction and is one step of the model.                               *)
(*                                                                         *)
(* The loader (dtp_download.py, main and insert_single_record), which      *)
(* fills lbn.dtp_buffer, is a second state machine over its own variables. *)
(***************************************************************************)
EXTENDS Integers, Sequences, FiniteSets, TLC

(***************************************************************************)
(* Bounds of the model.                                                    *)
(***************************************************************************)
\* number of rows of lbn.dtp_buffer (their ids are 1..NumRecords)
NumRecords == 3
\* statements / connection acquisitions that the store may fail, over all runs
MaxFaults == 1
\* LIMIT of the batch SELECT; the source sets 10 (dtp_processing.py:117),
\* scaled down so that a buffer of NumRecords rows needs several batches
batch_size == 2

\* get_connection: the cap on connection attempts
max_attempts == 3

\* insert_single_record: the cap on attempts (max_attempts in dtp_download.py)
insert_max_attempts == 5

\* API requests of one run of dtp_download.py (its cities x months)
NumRequests == 2
\* cap on len(all_records)
MaxFetched == 3

Ids == 1..NumRecords

(***************************************************************************)
(* Raw payloads.  An item is one element of the decoded payload:           *)
(*   is_dict  whether the element is a JSON object                         *)
(*   KartId   the business key, "" when absent or empty                    *)
(*   infoDtp  "absent", "dict" (an object) or "nondict" (null, a string,   *)
(*            a list ...: a value without a .get method)                   *)
(* A payload is the value the driver hands to main() as raw_json:          *)
(*   type  "dict" (already decoded by the driver) or "str" (JSON text)     *)
(*   json  what the text decodes to: "object", "array", "scalar"           *)
(*         (a string, number, boolean or null) or "invalid" (undecodable)  *)
(*   items the object (one item) or the elements of the array              *)
(***************************************************************************)
NoKartId == ""

ItemObj(k, info) == [is_dict |-> TRUE, KartId |-> k, infoDtp |-> info]

ItemNotDict == [is_dict |-> FALSE, KartId |-> NoKartId, infoDtp |-> "absent"]

Payload(t, js, its) == [type |-> t, json |-> js, items |-> its]

\* '{not json'
P_Invalid == Payload("str", "invalid", <<>>)
\* '42'
P_Scalar == Payload("str", "scalar", <<>>)
\* {"KartId": "K1", "infoDtp": {...}} handed over as a dict
P_ObjK1 == Payload("dict", "object", <<ItemObj("K1", "dict")>>)
\* '{"date": "01.03.2024"}'
P_ObjNoKey == Payload("str", "object", <<ItemObj(NoKartId, "absent")>>)
\* '[]'
P_ArrEmpty == Payload("str", "array", <<>>)
\* '[1]'
P_ArrNotDict == Payload("str", "array", <<ItemNotDict>>)
\* '[{"KartId": "K1"}, {"KartId": "K2"}]'
P_ArrK1K2 == Payload("str", "array", <<ItemObj("K1", "absent"), ItemObj("K2", "absent")>>)
\* '[{}, {"KartId": "K1"}]'
P_ArrNoKeyK1 == Payload("str", "array", <<ItemObj(NoKartId, "absent"), ItemObj("K1", "dict")>>)
\* '[{"KartId": "K1"}, {"KartId": "K2", "infoDtp": null}]'
P_ArrK1K2InfoNull == Payload("str", "array", <<ItemObj("K1", "absent"), ItemObj("K2", "nondict")>>)

Payloads ==
    { P_Invalid, P_Scalar, P_ObjK1, P_ObjNoKey, P_ArrEmpty, P_ArrNotDict,
      P_ArrK1K2, P_ArrNoKeyK1, P_ArrK1K2InfoNull }

VARIABLES
    payload,          \* lbn.dtp_buffer.raw_json, by id
    date_processing,  \* lbn.dtp_buffer.date_processing IS NOT NULL, by id
    is_error,         \* lbn.dtp_buffer.is_error, by id
    dtp_main,         \* the rows of lbn.dtp_main
    pc,               \* the statement main() is about to execute
    result,           \* "running", or how the current invocation ended
    prev,             \* how the previous invocation ended ("none" in the first)
    open,             \* the connections that are open
    rows,             \* the batch fetched by the SELECT
    i,                \* the position in rows (1-based)
    cur,              \* id of the record being processed, 0 when none
    data_list,        \* the items of the record being processed
    j,                \* the position in data_list (1-based)
    err,              \* what raised inside the record's try block
    processed_count,
    error_count,
    attempted,        \* ids on which processing was started in this run
    nfaults,          \* store failures so far, over all runs
    startup,          \* the get_connection call of line 85 that main() is acting on
    fpc,              \* dtp_download.py: the statement its main() is about to execute
    requests,         \* the API requests (city, month) made so far
    all_records,
    failed_records,
    success_count,
    index,            \* enumerate(all_records): the position, 0-based
    insert_attempt,   \* insert_single_record: attempt, 0-based
    dtp_buffer,       \* the rows the INSERTs of dtp_download.py added to lbn.dtp_buffer
    side_file         \* failed_records.json

\* the variables of dtp_download.py
fetcher == << fpc, requests, all_records, failed_records, success_count, index,
              insert_attempt, dtp_buffer, side_file >>

vars == << payload, date_processing, is_error, dtp_main, pc, result, prev,
           open, rows, i, cur, data_list, j, err, processed_count, error_count,
           attempted, nfaults, startup, fetcher >>

(***************************************************************************)
(* get_connection: up to max_attempts attempts, the first that succeeds    *)
(* is returned, None after the last failure.  outcomes[a] says whether     *)
(* attempt a (0-based, as in range(max_attempts)) connects.                *)
(***************************************************************************)
ConnectOutcomes == [0..(max_attempts - 1) -> BOOLEAN]

RECURSIVE connect_from(_, _)
connect_from(outcomes, attempt) ==
    IF attempt >= max_attempts
    THEN [conn |-> FALSE, attempts |-> attempt]
    ELSE IF outcomes[attempt]
         THEN [conn |-> TRUE, attempts |-> attempt + 1]
         ELSE connect_from(outcomes, attempt + 1)

\* a single attempt, no retry
get_connection_single_attempt(outcomes) ==
    [conn |-> outcomes[0], attempts |-> 1]

get_connection(outcomes) == connect_from(outcomes, 0)

\* conn = get_connection() at line 85: what the attempts did, what was returned
Call(outcomes) ==
    [outcomes |-> outcomes,
     conn |-> get_connection(outcomes).conn,
     attempts |-> get_connection(outcomes).attempts]

\* no startup call is being acted on
NoCall == [outcomes |-> <<>>, conn |-> FALSE, attempts |-> 0]

\* the store may still fail an operation
MayFail == nfaults < MaxFaults

(***************************************************************************)
(* The WHERE clauses and the batch SELECT.                                 *)
(***************************************************************************)
count_where(id) == ~date_processing[id] /\ ~is_error[id]

\* the WHERE clause without its is_error filter
select_where_any_error(id) == ~date_processing[id]

select_where(id) == ~date_processing[id] /\ ~is_error[id]

\* ORDER BY id LIMIT lim: scan the ids upwards, keep the first lim matches
RECURSIVE select_from(_, _, _)
select_from(id, lim, acc) ==
    IF id > NumRecords \/ Len(acc) >= lim
    THEN acc
    ELSE select_from(id + 1, lim, IF select_where(id) THEN Append(acc, id) ELSE acc)

select_batch(lim) == select_from(1, lim, <<>>)

(***************************************************************************)
(* Decoding of raw_json (lines 162-175).                                   *)
(***************************************************************************)
\* decoding that lets every decodable value through, without the ValueError
parse_json_no_shape_check(raw_json) ==
    IF raw_json.type = "dict" \/ raw_json.json # "invalid"
    THEN [ok |-> TRUE, data_list |-> raw_json.items]
    ELSE [ok |-> FALSE, data_list |-> <<>>]

parse_json(raw_json) ==
    IF raw_json.type = "dict"
    THEN [ok |-> TRUE, data_list |-> raw_json.items]
    ELSE IF raw_json.json \in {"object", "array"}
         THEN [ok |-> TRUE, data_list |-> raw_json.items]
         ELSE [ok |-> FALSE, data_list |-> <<>>]

\* info = data.get('infoDtp', {}); info.get('n_p', city_name)
normalize_raises(data) == data.infoDtp = "nondict"

\* the unique constraint of lbn.dtp_main on kart_id
UniqueViolation(kart_id) == \E row \in dtp_main : row.kart_id = kart_id

(***************************************************************************)
(* dtp_download.py: the values of its variables.                           *)
(***************************************************************************)
\* the raw items the API may return, as json.dumps renders them
RawItems == {"r1", "r2"}

\* an element of all_records (lines 177-182)
FetchedRecord(raw) == [raw_json |-> raw]

\* the row that the INSERT of lines 92-104 adds: it names four columns, the
\* two flags take the defaults of the table
BufferRow(rec) ==
    [raw_json |-> rec.raw_json, date_processing |-> FALSE, is_error |-> FALSE]

\* failed_records.json was not written
NotWritten == [written |-> FALSE, content |-> <<>>]

\* dtp_download.py is not running
FetcherOff ==
    /\ fpc = "off"
    /\ requests = 0
    /\ all_records = <<>>
    /\ failed_records = <<>>
    /\ success_count = 0
    /\ index = 0
    /\ insert_attempt = 0
    /\ dtp_buffer = <<>>
    /\ side_file = NotWritten

Init ==
    /\ payload \in [Ids -> Payloads]
    /\ date_processing = [id \in Ids |-> FALSE]
    /\ is_error = [id \in Ids |-> FALSE]
    /\ dtp_main = {}
    /\ pc = "start"
    /\ result = "running"
    /\ prev = "none"
    /\ open = {}
    /\ rows = <<>>
    /\ i = 0
    /\ cur = 0
    /\ data_list = <<>>
    /\ j = 0
    /\ err = "none"
    /\ processed_count = 0
    /\ error_count = 0
    /\ attempted = {}
    /\ nfaults = 0
    /\ startup = NoCall
    /\ FetcherOff

Running == result = "running"

db == << payload, date_processing, is_error, dtp_main >>
counters == << processed_count, error_count >>
batch == << rows, i >>
record == << cur, data_list, j, err >>

\* main() returns: the finally clauses close batch_conn and conn
Finish(res) ==
    /\ pc' = "done"
    /\ result' = res
    /\ open' = open \ {"conn", "batch_conn"}
    /\ rows' = <<>>
    /\ i' = 0
    /\ cur' = 0
    /\ data_list' = <<>>
    /\ j' = 0
    /\ err' = "none"

\* the record's finally clause (lines 255-260) with the connections left open
EndRecord(stillOpen) ==
    /\ pc' = "record"
    /\ open' = stillOpen \ {"record_conn"}
    /\ i' = i + 1
    /\ cur' = 0
    /\ data_list' = <<>>
    /\ j' = 0
    /\ err' = "none"
    /\ UNCHANGED rows

Fault == MayFail /\ nfaults' = nfaults + 1

(***************************************************************************)
(* main(): lines 85-88, the startup connection.                            *)
(***************************************************************************)
Start_Ok ==
    /\ Running /\ pc = "start"
    /\ \E o \in ConnectOutcomes :
          /\ get_connection(o).conn
          /\ startup' = Call(o)
    /\ pc' = "check"
    /\ open' = open \cup {"conn"}
    /\ UNCHANGED << db, prev, fetcher, result, batch, record, counters, attempted, nfaults >>

Start_Fail ==
    /\ Running /\ pc = "start"
    /\ \E o \in ConnectOutcomes :
          /\ ~get_connection(o).conn
          /\ startup' = Call(o)
    /\ Fault
    /\ Finish("no_connection")
    /\ UNCHANGED << db, prev, fetcher, counters, attempted >>

(***************************************************************************)
(* Lines 90-119, the preliminary counts.  When either COUNT raises,        *)
(* to_process is never bound and line 119 raises NameError, which the      *)
(* outer except (line 279) logs as the critical error.                     *)
(***************************************************************************)
Check_Ok ==
    /\ Running /\ pc = "check"
    /\ LET to_process == Cardinality({id \in Ids : count_where(id)})
       IN IF to_process = 0
          THEN Finish("nothing") /\ UNCHANGED counters
          ELSE /\ pc' = "loop"
               /\ processed_count' = 0
               /\ error_count' = 0
               /\ UNCHANGED << result, open, batch, record >>
    /\ startup' = NoCall
    /\ UNCHANGED << db, prev, fetcher, attempted, nfaults >>

Check_Fail ==
    /\ Running /\ pc = "check"
    /\ Fault
    /\ Finish("critical")
    /\ startup' = NoCall
    /\ UNCHANGED << db, prev, fetcher, counters, attempted >>

(***************************************************************************)
(* Lines 121-146, one turn of the batch loop.                              *)
(***************************************************************************)
Loop_Ok ==
    /\ Running /\ pc = "loop"
    /\ \E o \in ConnectOutcomes : get_connection(o).conn
    /\ pc' = "select"
    /\ open' = open \cup {"batch_conn"}
    /\ UNCHANGED << db, prev, startup, fetcher, result, batch, record, counters, attempted, nfaults >>

Loop_Fail ==
    /\ Running /\ pc = "loop"
    /\ \E o \in ConnectOutcomes : ~get_connection(o).conn
    /\ Fault
    /\ Finish("batch_conn_failed")
    /\ UNCHANGED << db, prev, startup, fetcher, counters, attempted >>

Select_Ok ==
    /\ Running /\ pc = "select"
    /\ LET fetched == select_batch(batch_size)
       IN IF fetched = <<>>
          THEN Finish("exhausted")
          ELSE /\ rows' = fetched
               /\ i' = 1
               /\ pc' = "record"
               /\ UNCHANGED << result, open, record >>
    /\ UNCHANGED << db, prev, startup, fetcher, counters, attempted, nfaults >>

\* a SELECT that raises taken for an empty batch
Select_Fail_AsEmpty ==
    /\ Running /\ pc = "select"
    /\ Fault
    /\ Finish("exhausted")
    /\ UNCHANGED << db, prev, startup, fetcher, counters, attempted >>

\* the SELECT raises: line 262 logs it, batch_conn is closed, the loop goes on
Select_Fail ==
    /\ Running /\ pc = "select"
    /\ Fault
    /\ pc' = "loop"
    /\ open' = open \ {"batch_conn"}
    /\ UNCHANGED << db, prev, startup, fetcher, result, batch, record, counters, attempted >>

(***************************************************************************)
(* Lines 147-157, the next row of the batch.                               *)
(***************************************************************************)
Record_End ==
    /\ Running /\ pc = "record" /\ i > Len(rows)
    /\ pc' = "loop"
    /\ open' = open \ {"batch_conn"}
    /\ rows' = <<>>
    /\ i' = 0
    /\ UNCHANGED << db, prev, startup, fetcher, result, record, counters, attempted, nfaults >>

Record_Ok ==
    /\ Running /\ pc = "record" /\ i <= Len(rows)
    /\ \E o \in ConnectOutcomes : get_connection(o).conn
    /\ cur' = rows[i]
    /\ attempted' = attempted \cup {rows[i]}
    /\ open' = open \cup {"record_conn"}
    /\ pc' = "parse"
    /\ UNCHANGED << db, prev, startup, fetcher, result, batch, data_list, j, err, counters, nfaults >>

\* no connection for the record: continue
Record_NoConn ==
    /\ Running /\ pc = "record" /\ i <= Len(rows)
    /\ \E o \in ConnectOutcomes : ~get_connection(o).conn
    /\ Fault
    /\ attempted' = attempted \cup {rows[i]}
    /\ i' = i + 1
    /\ UNCHANGED << db, prev, startup, fetcher, result, pc, open, rows, record, counters >>

(***************************************************************************)
(* Lines 162-175, decoding.                                                *)
(***************************************************************************)
Parse_Ok ==
    /\ Running /\ pc = "parse"
    /\ parse_json(payload[cur]).ok
    /\ data_list' = parse_json(payload[cur]).data_list
    /\ j' = 1
    /\ pc' = "item"
    /\ UNCHANGED << db, prev, startup, fetcher, result, open, batch, cur, err, counters, attempted, nfaults >>

Parse_Raise ==
    /\ Running /\ pc = "parse"
    /\ ~parse_json(payload[cur]).ok
    /\ err' = "parse"
    /\ pc' = "handler"
    /\ UNCHANGED << db, prev, startup, fetcher, result, open, batch, cur, data_list, j, counters, attempted, nfaults >>

(***************************************************************************)
(* Lines 177-226, one item of the record.                                  *)
(***************************************************************************)
AtItem == Running /\ pc = "item" /\ j <= Len(data_list)

Insertable == AtItem /\ data_list[j].is_dict /\ data_list[j].KartId # NoKartId
                     /\ ~normalize_raises(data_list[j])

Raise(e) ==
    /\ err' = e
    /\ pc' = "handler"
    /\ UNCHANGED << db, prev, startup, fetcher, result, open, batch, cur, data_list, j, counters, attempted >>

Item_End ==
    /\ Running /\ pc = "item" /\ j > Len(data_list)
    /\ EndRecord(open)
    /\ UNCHANGED << db, prev, startup, fetcher, result, counters, attempted, nfaults >>

Item_SkipNotDict ==
    /\ AtItem /\ ~data_list[j].is_dict
    /\ j' = j + 1
    /\ UNCHANGED << db, prev, startup, fetcher, result, pc, open, batch, cur, data_list, err, counters, attempted, nfaults >>

\* the missing key handled as an error of the record
Item_SkipNoKartId_Raises ==
    /\ AtItem /\ data_list[j].is_dict /\ data_list[j].KartId = NoKartId
    /\ Raise("normalize")
    /\ UNCHANGED nfaults

Item_SkipNoKartId ==
    /\ AtItem /\ data_list[j].is_dict /\ data_list[j].KartId = NoKartId
    /\ j' = j + 1
    /\ UNCHANGED << db, prev, startup, fetcher, result, pc, open, batch, cur, data_list, err, counters, attempted, nfaults >>

Item_NormalizeRaise ==
    /\ AtItem /\ data_list[j].is_dict /\ data_list[j].KartId # NoKartId
    /\ normalize_raises(data_list[j])
    /\ Raise("normalize")
    /\ UNCHANGED nfaults

Item_InsertOk ==
    /\ Insertable
    /\ ~UniqueViolation(data_list[j].KartId)
    /\ dtp_main' = dtp_main \cup {[kart_id |-> data_list[j].KartId, src |-> cur, idx |-> j]}
    /\ pc' = "mark"
    /\ UNCHANGED << payload, date_processing, is_error, prev, startup, fetcher, result, open, batch,
                    record, counters, attempted, nfaults >>

\* the conflict handled like any other error of the INSERT
Item_InsertConflict_Raises ==
    /\ Insertable
    /\ UniqueViolation(data_list[j].KartId)
    /\ Raise("insert_other")
    /\ UNCHANGED nfaults

\* the conflict resolved by overwriting the stored row with the later item
Item_InsertConflict_Updates ==
    /\ Insertable
    /\ UniqueViolation(data_list[j].KartId)
    /\ dtp_main' = {row \in dtp_main : row.kart_id # data_list[j].KartId}
                        \cup {[kart_id |-> data_list[j].KartId, src |-> cur, idx |-> j]}
    /\ pc' = "mark"
    /\ UNCHANGED << payload, date_processing, is_error, prev, startup, fetcher, result,
                    open, batch, record, counters, attempted, nfaults >>

\* except psycopg2.errors.UniqueViolation: pass
Item_InsertConflict ==
    /\ Insertable
    /\ UniqueViolation(data_list[j].KartId)
    /\ pc' = "mark"
    /\ UNCHANGED << db, prev, startup, fetcher, result, open, batch, record, counters, attempted, nfaults >>

\* the INSERT raises a connection error (psycopg2.OperationalError)
Item_InsertConnError ==
    /\ Insertable
    /\ Fault
    /\ Raise("insert_conn")

\* the INSERT raises any other error (a data error, a missing column ...)
Item_InsertOtherError ==
    /\ Insertable
    /\ Fault
    /\ Raise("insert_other")

(***************************************************************************)
(* Lines 227-235, UPDATE ... SET date_processing, inside the item loop.    *)
(***************************************************************************)
Mark_Ok ==
    /\ Running /\ pc = "mark"
    /\ date_processing' = [date_processing EXCEPT ![cur] = TRUE]
    /\ processed_count' = processed_count + 1
    /\ j' = j + 1
    /\ pc' = "item"
    /\ UNCHANGED << payload, is_error, dtp_main, prev, startup, fetcher, result, open, batch, cur,
                    data_list, err, error_count, attempted, nfaults >>

\* the UPDATE raises: the connection was lost
Mark_Fail ==
    /\ Running /\ pc = "mark"
    /\ Fault
    /\ Raise("mark_conn")

(***************************************************************************)
(* Lines 237-257, the record's except clause.                              *)
(***************************************************************************)
Handler_Ok ==
    /\ Running /\ pc = "handler"
    /\ \E o \in ConnectOutcomes : get_connection(o).conn
    /\ error_count' = error_count + 1
    /\ is_error' = [is_error EXCEPT ![cur] = TRUE]
    /\ EndRecord(open)
    /\ UNCHANGED << payload, date_processing, dtp_main, prev, startup, fetcher, result,
                    processed_count, attempted, nfaults >>

\* get_connection returned None: nothing is marked
Handler_NoConn ==
    /\ Running /\ pc = "handler"
    /\ \E o \in ConnectOutcomes : ~get_connection(o).conn
    /\ Fault
    /\ error_count' = error_count + 1
    /\ EndRecord(open)
    /\ UNCHANGED << db, prev, startup, fetcher, result, processed_count, attempted >>

\* the UPDATE raises: except: pass, and error_conn.close() is skipped
Handler_UpdateFail ==
    /\ Running /\ pc = "handler"
    /\ \E o \in ConnectOutcomes : get_connection(o).conn
    /\ Fault
    /\ error_count' = error_count + 1
    /\ EndRecord(open \cup {"error_conn"})
    /\ UNCHANGED << db, prev, startup, fetcher, result, processed_count, attempted >>

(***************************************************************************)
(* The environment: the process is killed, the job is invoked again.       *)
(***************************************************************************)
\* the process dies where it stands: its locals and connections are gone
Terminate ==
    /\ Running
    /\ pc' = "done"
    /\ result' = "killed"
    /\ open' = {}
    /\ rows' = <<>>
    /\ i' = 0
    /\ cur' = 0
    /\ data_list' = <<>>
    /\ j' = 0
    /\ err' = "none"
    /\ processed_count' = 0
    /\ error_count' = 0
    /\ attempted' = {}
    /\ startup' = NoCall
    /\ UNCHANGED << db, prev, fetcher, nfaults >>

StartRun ==
    /\ ~Running
    /\ prev' = result
    /\ result' = "running"
    /\ pc' = "start"
    /\ open' = {}
    /\ rows' = <<>>
    /\ i' = 0
    /\ cur' = 0
    /\ data_list' = <<>>
    /\ j' = 0
    /\ err' = "none"
    /\ processed_count' = 0
    /\ error_count' = 0
    /\ attempted' = {}
    /\ startup' = NoCall
    /\ UNCHANGED << db, fetcher, nfaults >>

\* the steps of main() when the store answers
Step ==
    \/ Start_Ok \/ Check_Ok \/ Loop_Ok \/ Select_Ok
    \/ Record_End \/ Record_Ok \/ Parse_Ok \/ Parse_Raise
    \/ Item_End \/ Item_SkipNotDict \/ Item_SkipNoKartId \/ Item_NormalizeRaise
    \/ Item_InsertOk \/ Item_InsertConflict \/ Mark_Ok \/ Handler_Ok

\* the steps of main() when the store fails it
FaultStep ==
    \/ Start_Fail \/ Check_Fail \/ Loop_Fail \/ Select_Fail \/ Record_NoConn
    \/ Item_InsertConnError \/ Item_InsertOtherError \/ Mark_Fail
    \/ Handler_NoConn \/ Handler_UpdateFail

Next == Step \/ FaultStep \/ Terminate \/ StartRun

Spec == Init /\ [][Next]_vars

\* the store answers every operation; the process may be killed and the job
\* invoked again
ReachableSpec == Init /\ [][Step \/ Terminate \/ StartRun]_vars

\* the store may be unreachable when main() asks for its startup connection and
\* answers every later operation
StartupSpec == Init /\ [][Step \/ Start_Fail \/ StartRun]_vars

\* one invocation with the store reachable throughout; main() is sequential
\* code, it takes its next statement whenever it has one
LiveSpec == Init /\ [][Step]_vars /\ WF_vars(Step)

(***************************************************************************)
(* dtp_download.py, main(): lines 130-193, the requests to the API.  A     *)
(* request that fails, or answers without data, adds nothing (continue).   *)
(***************************************************************************)
processor == << db, pc, result, prev, open, batch, record, counters, attempted,
                nfaults, startup >>

\* dtp_download.py starts, dtp_processing.py does not run
FetcherInit ==
    /\ payload = [id \in Ids |-> P_ArrEmpty]
    /\ date_processing = [id \in Ids |-> FALSE]
    /\ is_error = [id \in Ids |-> FALSE]
    /\ dtp_main = {}
    /\ pc = "done"
    /\ result = "off"
    /\ prev = "none"
    /\ open = {}
    /\ rows = <<>>
    /\ i = 0
    /\ cur = 0
    /\ data_list = <<>>
    /\ j = 0
    /\ err = "none"
    /\ processed_count = 0
    /\ error_count = 0
    /\ attempted = {}
    /\ nfaults = 0
    /\ startup = NoCall
    /\ fpc = "fetch"
    /\ requests = 0
    /\ all_records = <<>>
    /\ failed_records = <<>>
    /\ success_count = 0
    /\ index = 0
    /\ insert_attempt = 0
    /\ dtp_buffer = <<>>
    /\ side_file = NotWritten

\* the non-empty lists of at most n fetched records
Responses(n) == UNION { [1..k -> {FetchedRecord(raw) : raw \in RawItems}] : k \in 1..n }

Fetch_Ok ==
    /\ fpc = "fetch" /\ requests < NumRequests
    /\ \E data \in Responses(MaxFetched - Len(all_records)) :
          all_records' = all_records \o data
    /\ requests' = requests + 1
    /\ UNCHANGED << processor, fpc, failed_records, success_count, index, insert_attempt,
                    dtp_buffer, side_file >>

Fetch_Skip ==
    /\ fpc = "fetch" /\ requests < NumRequests
    /\ requests' = requests + 1
    /\ UNCHANGED << processor, fpc, all_records, failed_records, success_count, index,
                    insert_attempt, dtp_buffer, side_file >>

\* line 196, if all_records
Fetch_End ==
    /\ fpc = "fetch" /\ requests = NumRequests
    /\ fpc' = IF all_records # <<>> THEN "insert" ELSE "finished"
    /\ UNCHANGED << processor, requests, all_records, failed_records, success_count,
                    index, insert_attempt, dtp_buffer, side_file >>

(***************************************************************************)
(* insert_single_record (lines 80-121), one attempt a step, and the loop   *)
(* of lines 199-205 around it.                                             *)
(***************************************************************************)
Inserting == fpc = "insert" /\ index < Len(all_records)

\* insert_single_record returned False for all_records[index]
ReturnFalse ==
    /\ failed_records' = Append(failed_records, all_records[index + 1])
    /\ index' = index + 1
    /\ insert_attempt' = 0
    /\ UNCHANGED << processor, fpc, requests, all_records, success_count, side_file >>

\* the INSERT is executed: return True
Insert_Ok ==
    /\ Inserting /\ insert_attempt < insert_max_attempts
    /\ dtp_buffer' = Append(dtp_buffer, BufferRow(all_records[index + 1]))
    /\ success_count' = success_count + 1
    /\ index' = index + 1
    /\ insert_attempt' = 0
    /\ UNCHANGED << processor, fpc, requests, all_records, failed_records, side_file >>

\* psycopg2.OperationalError, from connect or from execute: the next attempt.
\* The connection may be lost after the server has executed the INSERT.
Insert_OperationalError ==
    /\ Inserting /\ insert_attempt < insert_max_attempts
    /\ \E executed \in BOOLEAN :
          dtp_buffer' = IF executed
                        THEN Append(dtp_buffer, BufferRow(all_records[index + 1]))
                        ELSE dtp_buffer
    /\ insert_attempt' = insert_attempt + 1
    /\ UNCHANGED << processor, fpc, requests, all_records, failed_records, success_count,
                    index, side_file >>

\* any other exception: return False at once
Insert_OtherError ==
    /\ Inserting /\ insert_attempt < insert_max_attempts
    /\ ReturnFalse
    /\ UNCHANGED dtp_buffer

\* the record given up without being kept in failed_records
Insert_GiveUp_Dropped ==
    /\ Inserting /\ insert_attempt = insert_max_attempts
    /\ index' = index + 1
    /\ insert_attempt' = 0
    /\ UNCHANGED << processor, fpc, requests, all_records, failed_records, success_count,
                    dtp_buffer, side_file >>

\* the attempts are used up: return False
Insert_GiveUp ==
    /\ Inserting /\ insert_attempt = insert_max_attempts
    /\ ReturnFalse
    /\ UNCHANGED dtp_buffer

\* lines 207-213: the failed records are written to failed_records.json
Insert_End ==
    /\ fpc = "insert" /\ index = Len(all_records)
    /\ side_file' = IF failed_records # <<>>
                    THEN [written |-> TRUE, content |-> failed_records]
                    ELSE side_file
    /\ fpc' = "finished"
    /\ UNCHANGED << processor, requests, all_records, failed_records, success_count,
                    index, insert_attempt, dtp_buffer >>

FetcherNext ==
    \/ Fetch_Ok \/ Fetch_Skip \/ Fetch_End
    \/ Insert_Ok \/ Insert_OperationalError \/ Insert_OtherError \/ Insert_GiveUp
    \/ Insert_End

\* one run of dtp_download.py
FetcherSpec == FetcherInit /\ [][FetcherNext]_vars

(***************************************************************************)
(* The states of a raw record.                                             *)
(***************************************************************************)
Eligible(id) == ~date_processing[id] /\ ~is_error[id]
Committed(id) == date_processing[id] /\ ~is_error[id]
Quarantined(id) == is_error[id] /\ ~date_processing[id]

EligibleIds == {id \in Ids : Eligible(id)}

\* a record is between the start of its attempt and its finally clause
InFlight == Running /\ cur # 0

\* positions of data_list, from j on, for which an INSERT is still to be issued
RemainingItems ==
    {k \in j..Len(data_list) : data_list[k].is_dict /\ data_list[k].KartId # NoKartId}

\* a statement of the record in flight is still to be executed
StatementToCome ==
    \/ pc \in {"parse", "mark", "handler"}
    \/ pc = "item" /\ RemainingItems # {}

Min(a, b) == IF a <= b THEN a ELSE b

\* the payload decodes to exactly one item, an object with KartId k that normalizes
CarriesOnly(id, k) ==
    /\ parse_json(payload[id]).ok
    /\ Len(payload[id].items) = 1
    /\ payload[id].items[1].is_dict
    /\ payload[id].items[1].KartId = k
    /\ ~normalize_raises(payload[id].items[1])

\* the payload is undecodable or decodes to neither an object nor an array
BadShape(id) ==
    payload[id].type = "str" /\ payload[id].json \in {"invalid", "scalar"}

\* the item at position j is an object with a non-empty KartId
AtKeyedItem == AtItem /\ data_list[j].is_dict /\ data_list[j].KartId # NoKartId

\* the item at position j is an object without a KartId
AtUnkeyedItem == AtItem /\ data_list[j].is_dict /\ data_list[j].KartId = NoKartId

\* an attempt on the record that the store does not fail takes it out of
\* Eligible: the payload does not decode, or one of its items has a KartId
Settles(id) ==
    \/ ~parse_json(payload[id]).ok
    \/ \E k \in 1..Len(payload[id].items) :
          payload[id].items[k].is_dict /\ payload[id].items[k].KartId # NoKartId

\* how many positions of seq hold x
Count(seq, x) == Cardinality({k \in 1..Len(seq) : seq[k] = x})

(***************************************************************************)
(* C1: in every reachable state no raw record has both date_processing set *)
(* and is_error = TRUE; each record is Eligible, Committed or Quarantined. *)
(***************************************************************************)
C1_ExactlyOneState ==
    \A id \in Ids : Eligible(id) \/ Committed(id) \/ Quarantined(id)

(***************************************************************************)
(* C2: with the store reachable throughout, every run terminates: the      *)
(* batch loop obtains an empty selection, no record is left Eligible and   *)
(* the summary is reported.                                                *)
(***************************************************************************)
C2_RunTerminates ==
    <>(pc = "done" /\ result = "exhausted" /\ EligibleIds = {})

(***************************************************************************)
(* C3: a record has date_processing set only after every one of its items  *)
(* was normalized and inserted (or skipped on a key conflict); a record    *)
(* with a failed item is not Committed.  Stated on the record in flight:   *)
(* once its date_processing is set, no item remains to be inserted, no     *)
(* UPDATE is pending and no failure is being handled.                      *)
(***************************************************************************)
C3_CommittedOnlyAfterAllItems ==
    (InFlight /\ date_processing[cur]) => (pc = "item" /\ RemainingItems = {})

(***************************************************************************)
(* C4: a process killed while a statement of the record in flight is still *)
(* to come leaves that record Eligible.                                    *)
(***************************************************************************)
C4_KilledMidRecordStaysEligible ==
    [][(InFlight /\ StatementToCome /\ result' = "killed") => Eligible(cur)]_vars

(***************************************************************************)
(* C5: is_error is set only after a decoding / normalization failure or a  *)
(* non-connectivity failure of the INSERT; a connection error of the       *)
(* INSERT or of the date_processing UPDATE never sets it.                  *)
(***************************************************************************)
C5_ConnectivityNeverQuarantines ==
    [][\A id \in Ids : (~is_error[id] /\ is_error'[id])
            => err \in {"parse", "normalize", "insert_other"}]_vars

(***************************************************************************)
(* C6: in an invocation that follows a completed one (one that ended on an *)
(* empty batch selection, or found nothing to process) no step changes     *)
(* lbn.dtp_main or the state of any raw record.                            *)
(***************************************************************************)
C6_SecondRunChangesNothing ==
    [][(prev \in {"exhausted", "nothing"})
            => UNCHANGED << dtp_main, date_processing, is_error >>]_vars

C6_Witness ==
    /\ prev = "exhausted"
    /\ pc = "done" /\ result = "nothing"
    /\ dtp_main # {}
    /\ \E id \in Ids : Committed(id)

(***************************************************************************)
(* C7: lbn.dtp_main holds at most one row per kart_id; and when two raw    *)
(* records carry the same single key, then, the store never having failed, *)
(* once both were processed both are Committed and one row has that key.   *)
(***************************************************************************)
C7_OneRowPerKey ==
    /\ \A a, b \in dtp_main : a.kart_id = b.kart_id => a = b
    /\ \A r1, r2 \in Ids : \A k \in {"K1", "K2"} :
         ( /\ r1 # r2 /\ CarriesOnly(r1, k) /\ CarriesOnly(r2, k)
           /\ nfaults = 0
           /\ ~Eligible(r1) /\ ~Eligible(r2) )
         => ( /\ Committed(r1) /\ Committed(r2)
              /\ Cardinality({row \in dtp_main : row.kart_id = k}) = 1 )

C7_Witness ==
    \E r1, r2 \in Ids :
        /\ r1 # r2 /\ CarriesOnly(r1, "K1") /\ CarriesOnly(r2, "K1")
        /\ nfaults = 0
        /\ Committed(r1) /\ Committed(r2)
        /\ Cardinality({row \in dtp_main : row.kart_id = "K1"}) = 1

(***************************************************************************)
(* C8: within one run the ids on which processing is started never         *)
(* decrease: no record is started after a record with a larger id.         *)
(***************************************************************************)
C8_AttemptsNonDecreasing ==
    [][(Running /\ pc = "record" /\ i <= Len(rows) /\ result' = "running")
            => \A a \in attempted : a <= rows[i]]_vars

(***************************************************************************)
(* C9: a batch selection returns the min(batch_size, number of eligible    *)
(* rows) lowest-id Eligible records in ascending id order, and the loop    *)
(* ends on an empty selection only when no record is Eligible.             *)
(***************************************************************************)
C9_BatchSelection ==
    /\ (Running /\ pc = "record" /\ i = 1) =>
         /\ Len(rows) = Min(batch_size, Cardinality(EligibleIds))
         /\ \A k \in 1..Len(rows) : Eligible(rows[k])
         /\ \A k \in 1..(Len(rows) - 1) : rows[k] < rows[k + 1]
         /\ \A id \in EligibleIds :
              (\A k \in 1..Len(rows) : rows[k] # id)
                  => (\A k \in 1..Len(rows) : rows[k] < id)
    /\ (pc = "done" /\ result = "exhausted") => EligibleIds = {}

C9_Witness ==
    /\ Running /\ pc = "record" /\ i = 1
    /\ Len(rows) = batch_size
    /\ \E id \in Ids : is_error[id] /\ rows[1] < id /\ id < rows[Len(rows)]

(***************************************************************************)
(* C10: a record whose payload is undecodable or decodes to a scalar, once *)
(* its attempt is over and the store never having failed, is Quarantined   *)
(* and has no row in lbn.dtp_main.                                         *)
(***************************************************************************)
C10_BadShapeQuarantined ==
    \A id \in Ids :
        (BadShape(id) /\ id \in attempted /\ cur # id /\ nfaults = 0)
            => (Quarantined(id) /\ \A row \in dtp_main : row.src # id)

C10_Witness ==
    \E id \in Ids :
        /\ BadShape(id) /\ payload[id].json = "scalar"
        /\ id \in attempted /\ cur # id /\ nfaults = 0
        /\ Quarantined(id)

(***************************************************************************)
(* C11: an item that is an object with a non-empty KartId never fails to   *)
(* normalize, whatever its other fields hold (infoDtp null or not an       *)
(* object included): with the store answering, the step taken on such an   *)
(* item issues its INSERT and does not send the record to the except       *)
(* clause.                                                                 *)
(***************************************************************************)
C11_KeyedItemNormalizes ==
    [][(AtKeyedItem /\ result' = "running")
            => (pc' = "mark" /\ err' = "none")]_vars

(***************************************************************************)
(* C12: an item without KartId is passed over: the step writes no row,     *)
(* raises nothing and sets no flag, and the loop goes on to the next item; *)
(* lbn.dtp_main never holds a row with an empty key, and when the item     *)
(* loop of a record ends every keyed item of the record has its row.       *)
(***************************************************************************)
C12_MissingKeySkipped ==
    [][ /\ (AtUnkeyedItem /\ result' = "running")
            => /\ pc' = "item" /\ j' = j + 1 /\ err' = "none"
               /\ UNCHANGED << cur, data_list, dtp_main, date_processing, is_error,
                               error_count >>
        /\ \A row \in dtp_main' : row.kart_id # NoKartId
        /\ (Running /\ pc = "item" /\ j > Len(data_list))
            => \A k \in 1..Len(data_list) :
                  (data_list[k].is_dict /\ data_list[k].KartId # NoKartId)
                      => \E row \in dtp_main : row.kart_id = data_list[k].KartId
      ]_vars

C12_Witness ==
    \E id \in Ids :
        /\ payload[id] = P_ArrNoKeyK1
        /\ id \in attempted /\ cur # id
        /\ Committed(id)
        /\ \E row \in dtp_main : row.src = id /\ row.idx = 2

(***************************************************************************)
(* C13: when a first run has gone through its batch loop, processed_count  *)
(* is the number of Committed records and error_count the number of        *)
(* Quarantined records.                                                    *)
(***************************************************************************)
C13_CountsMatchRecords ==
    (prev = "none" /\ pc = "done" /\ result \in {"exhausted", "batch_conn_failed"})
        => /\ processed_count = Cardinality({id \in Ids : Committed(id)})
           /\ error_count = Cardinality({id \in Ids : Quarantined(id)})

(***************************************************************************)
(* C14: a connection is closed by the operation that acquired it: between  *)
(* two records only conn and batch_conn are open, between two batches only *)
(* conn.                                                                   *)
(***************************************************************************)
C14_ConnectionsReleased ==
    /\ (Running /\ pc = "record") => open \subseteq {"conn", "batch_conn"}
    /\ (Running /\ pc = "loop") => open \subseteq {"conn"}

(***************************************************************************)
(* C15: the startup get_connection makes at most max_attempts attempts,    *)
(* returns as soon as an attempt connects and returns None only after      *)
(* max_attempts failures; the run that gets None ends there, straight from *)
(* the startup, without a batch selection and without a change to          *)
(* lbn.dtp_buffer or lbn.dtp_main.                                         *)
(***************************************************************************)
C15_StartupConnection ==
    [][ /\ (startup' # NoCall) =>
              /\ startup'.attempts \in 1..max_attempts
              /\ \A a \in 0..(startup'.attempts - 2) : ~startup'.outcomes[a]
              /\ startup'.conn <=> startup'.outcomes[startup'.attempts - 1]
              /\ ~startup'.conn => startup'.attempts = max_attempts
        /\ (Running /\ result' = "no_connection") =>
              /\ pc = "start" /\ pc' = "done"
              /\ ~startup'.conn
              /\ rows' = <<>> /\ attempted' = {} /\ open' = {}
              /\ UNCHANGED << payload, date_processing, is_error, dtp_main >>
        /\ (Running /\ pc = "start" /\ result' = "running") => startup'.conn
      ]_vars

C15_Witness ==
    /\ pc = "done" /\ result = "no_connection"
    /\ startup.attempts = max_attempts /\ ~startup.conn
    /\ dtp_main # {}
    /\ \E id \in Ids : Committed(id)

(***************************************************************************)
(* C16: in dtp_download.py every record gone through the insertion loop is *)
(* counted once, in success_count or in failed_records; a record counted   *)
(* in success_count has a row in lbn.dtp_buffer, created Eligible; when    *)
(* the run has finished the whole of all_records is accounted for, and     *)
(* failed_records.json was written, with failed_records, exactly when      *)
(* failed_records is not empty.                                            *)
(***************************************************************************)
C16_EveryItemAccounted ==
    /\ success_count + Len(failed_records) = index
    /\ index <= Len(all_records)
    /\ \A raw \in RawItems :
         LET rec == FetchedRecord(raw)
             done == SubSeq(all_records, 1, index)
         IN /\ Count(failed_records, rec) <= Count(done, rec)
            /\ Count(done, rec) - Count(failed_records, rec)
                   <= Count(dtp_buffer, BufferRow(rec))
    /\ \A k \in 1..Len(dtp_buffer) :
         ~dtp_buffer[k].date_processing /\ ~dtp_buffer[k].is_error
    /\ (fpc = "finished") =>
         /\ index = Len(all_records)
         /\ side_file.written <=> (failed_records # <<>>)
         /\ side_file.written => side_file.content = failed_records
    /\ (fpc # "finished") => ~side_file.written

C16_Witness ==
    /\ fpc = "finished"
    /\ side_file.written
    /\ success_count > 0
    /\ Len(dtp_buffer) > success_count
    /\ Len(all_records) = MaxFetched

(***************************************************************************)
(* C17: within one run no record is attempted twice: a record passed over  *)
(* because a connection could not be obtained (for the record, or for      *)
(* marking it as an error) is not selected again before the run ends.      *)
(* Stated for the records that an unfailed attempt takes out of Eligible.  *)
(***************************************************************************)
C17_SkippedNotRetriedInRun ==
    [][(Running /\ pc = "record" /\ i <= Len(rows) /\ result' = "running"
            /\ Settles(rows[i]))
            => rows[i] \notin attempted]_vars

C19_FailedCheckContinues ==
    [][(Running /\ pc = "check" /\ nfaults' = nfaults + 1)
            => (result' = "running" /\ pc' = "loop")]_vars

(***************************************************************************)
(* C20: with the store reachable throughout, every record that is Eligible *)
(* when the run starts is eventually attempted in that run.                *)
(***************************************************************************)
C20_EveryEligibleAttempted ==
    \A id \in Ids : <>(id \in attempted)

=============================================================================
